---- MODULE Spec2Model ----
(***************************************************************************)
(* State-machine model of controller_python/controller.py: the tick loop   *)
(* of MonkeyGameController (pause/resume supervisor, automation FSM,       *)
(* trigger bus), the operator key handlers, Retry and its deferred         *)
(* unblank callback, and the SharedMemory adapter.                         *)
(*                                                                         *)
(* Floats are hundredths (0.9 -> 90, 1.5 -> 150).  The continuous inputs   *)
(* (rotate/zoom) and the Tk widgets are not modelled: no handler reads     *)
(* them to decide a phase, a trigger or a trial.  Spec starts after the     *)
(* constructor has loaded a well-formed trial file of at least one record; *)
(* SpecLoad starts before the constructor and draws every trial file;      *)
(* SpecAdapter drives the SharedMemory adapter alone, on a failing channel. *)
(***************************************************************************)
EXTENDS Integers, Sequences, FiniteSets, TLC

\* ------------------------------------------------------------------ bounds
MaxTrials  == 2   \* longest trial queue drawn by Init
MaxIndex   == 2   \* cap on current_trial_index
MaxFrame   == 3   \* largest telemetry frame_number the engine reports
MaxEvents  == 1   \* operator key presses between two consecutive ticks
MaxPending == 1   \* deferred unblank callbacks outstanding at once

\* --------------------------------------------------------------- constants
WIN_BLANK_DURATION_FRAMES == 2   \* imported from monkey_shared; small stand-in
FALLBACK_THRESHOLD == 90         \* state.get("cosine_alignment_threshold", 0.9)
SENTINEL_BOUND == 150            \* current_alignment <= 1.5
None == -999                     \* Python None / missing dictionary key

States    == {"playing", "won", "animating", "blank"}
TriggerKeys == {"check", "reset", "blank", "pause", "resume", "animation_door", "retry"}
Keys      == {"space", "r", "c", "b", "p", "o"}
Alignments == {None, 90, 95, 100, 160}
Thresholds == {None, 95}

NoTriggers == [k \in TriggerKeys |-> FALSE]

DEFAULT_STATE ==
  [frame_number |-> 0, is_animating |-> FALSE,
   cosine_alignment |-> None, cosine_alignment_threshold |-> None]

\* what the engine may have published in shared memory when a tick reads it
\* in phase ph.  Each branch of the state machine reads its own fields
\* (playing: alignment and threshold; won: is_animating; animating:
\* is_animating and frame_number; blank: frame_number); the fields a phase
\* does not read stay at their defaults.
Telemetry(ph) ==
  CASE ph = "playing" ->
         [frame_number : {0}, is_animating : {FALSE},
          cosine_alignment : Alignments, cosine_alignment_threshold : Thresholds]
    [] ph = "won" ->
         [frame_number : {0}, is_animating : BOOLEAN,
          cosine_alignment : {None}, cosine_alignment_threshold : {None}]
    [] ph = "animating" ->
         [frame_number : 0..MaxFrame, is_animating : BOOLEAN,
          cosine_alignment : {None}, cosine_alignment_threshold : {None}]
    [] ph = "blank" ->
         [frame_number : 0..MaxFrame, is_animating : {FALSE},
          cosine_alignment : {None}, cosine_alignment_threshold : {None}]

\* trial record at queue position p (0-based); fields the claims refer to
TrialAt(p) == [seed |-> p, start_orient |-> 10 * (p + 1)]

NoTrial == [seed |-> None, start_orient |-> None]

\* lines 39-57: the record load_trials falls back to
DEFAULT_CONFIG == [seed |-> 69, start_orient |-> 0]

\* a line of trials.jsonl: a well-formed record, a line that is empty after
\* strip(), or a line json.loads / t["seed"] ... raises on
Lines == {"record", "blank", "malformed"}

\* the trial file as load_trials finds it: open() raises (missing or
\* unreadable), or it yields these lines
TrialFile(status, lines) == [status |-> status, lines |-> lines]

TrialFiles ==
  {TrialFile("missing", <<>>)}
  \cup {TrialFile("readable", l) :
          l \in UNION {[1..n -> Lines] : n \in 0..MaxTrials}}

\* the constructor has run: the file is no longer consulted
NoFile == TrialFile("closed", <<>>)

\* lines 94-115: the loop over the lines; raised when a line raises
RECURSIVE read_lines(_, _)
read_lines(lines, acc) ==
  IF lines = <<>> THEN [raised |-> FALSE, trials |-> acc]
  ELSE CASE Head(lines) = "blank"     -> read_lines(Tail(lines), acc)
         [] Head(lines) = "malformed" -> [raised |-> TRUE, trials |-> acc]
         [] Head(lines) = "record"    ->
              read_lines(Tail(lines), Append(acc, TrialAt(Len(acc))))

\* lines 80-120
load_trials(file) ==
  IF file.status = "missing" THEN <<DEFAULT_CONFIG>>
  ELSE LET r == read_lines(file.lines, <<>>)
       IN  IF r.raised THEN <<DEFAULT_CONFIG>> ELSE r.trials

\* self.paused_state = None
NoSnapshot == [trial_idx |-> None]

NoTelemetry == [frame_number |-> None]

NoFrame ==
  [check |-> FALSE, reset |-> FALSE, blank_screen |-> FALSE,
   stop_rendering |-> FALSE, resume_rendering |-> FALSE, animation_door |-> FALSE]

VARIABLES
  state,                \* self.state: the transitions.Machine phase
  triggers,             \* self.triggers
  trials,               \* self.trials
  current_trial_index,  \* self.current_trial_index
  blank_start_frame,    \* self.blank_start_frame
  inferred_win,         \* self.inferred_win
  paused_state,         \* self.paused_state (None or the snapshot)
  is_paused,            \* self.is_paused
  inner,                \* self.shm_wrapper.inner is not None
  flaky,                \* whether the shared-memory channel can fail at all
  unblank_timers,       \* after(200, unblank_callback) timers, oldest first;
                        \* TRUE once a tick has run since the timer was set
  loop_pending,         \* after(16, loop) timers outstanding
  game,                 \* telemetry the state machine was evaluated on by the
                        \* last action (NoTelemetry: it was not evaluated)
  tx,                   \* command frame the last tick handed to write_commands
  armed,                \* <<flag, source>> pairs set since the last tick's send
  calls,                \* adapter calls made by the last action, in order
  last,                 \* the last action taken and the path it took
  nevents,              \* operator key presses since the last tick
  trial_file,           \* trials.jsonl as the constructor will find it
                        \* (NoFile once load_trials has run)
  attempts,             \* per adapter call of the last action, in the order
                        \* of calls: was a reconnect tried, was the call done
  engine_trial,         \* trial carried by the most recent config write
                        \* that went with a trial advance (NoTrial: none yet)
  commands_done,        \* some write_commands call has reached the engine
  blank_sent            \* blank_screen pulses sent by the ticks so far, mod 2,
                        \* in a run that has used neither Retry nor the blank
                        \* key (None once it has)

vars == <<state, triggers, trials, current_trial_index, blank_start_frame,
          inferred_win, paused_state, is_paused, inner, flaky, unblank_timers,
          loop_pending, game, tx, armed, calls, last, nevents, trial_file,
          attempts, engine_trial, commands_done, blank_sent>>

\* ------------------------------------------------- SharedMemory (adapter)
\* Every adapter call ends either with the connection up and the call done
\* (ok) or with the connection marked broken and nothing done (not ok):
\* connect() failing, or the wrapped call raising, both leave inner = None.

\* read_game_state: the engine's record over DEFAULT_STATE, or DEFAULT_STATE
read_game_state(ok, eng) == IF ok THEN eng ELSE DEFAULT_STATE

shm_call_stays_up(up, conn_ok, op_ok) ==
  [connect |-> ~up, done |-> (up \/ conn_ok) /\ op_ok, inner |-> up \/ conn_ok]

\* the shape shared by lines 136-150, 152-172 and 174-207: with the
\* connection broken, connect() first (lines 128-134) and return early if
\* that fails; then the wrapped call, which marks the connection broken when
\* it raises.  up: inner is not None on entry; conn_ok: connect() would
\* succeed; op_ok: the wrapped call would not raise.
shm_call(up, conn_ok, op_ok) ==
  [connect |-> ~up, done |-> (up \/ conn_ok) /\ op_ok,
   inner |-> (up \/ conn_ok) /\ op_ok]

\* the outcomes an adapter call can have on this channel
Outcomes == IF flaky THEN BOOLEAN ELSE {TRUE}

\* one adapter call as logged in calls; trial is the record a config write
\* carries (NoTrial for the other calls)
Call(op, trial) == [op |-> op, trial |-> trial]

\* the positional arguments of write_commands, as a frame
write_commands(check, reset, blank_screen, stop_rendering, resume_rendering, animation_door) ==
  [check |-> check, reset |-> reset, blank_screen |-> blank_screen,
   stop_rendering |-> stop_rendering, resume_rendering |-> resume_rendering,
   animation_door |-> animation_door]

\* ---------------------------------------------------------- trial queue
\* self.trials[k % len(self.trials)], as a 0-based position
Position(k, L) == k % L

Trial(q, k) == q[Position(k, Len(q)) + 1]

\* ------------------------------------------------------ automation FSM
\* threshold = state.get("cosine_alignment_threshold", 0.9)
Threshold(st) ==
  IF st.cosine_alignment_threshold = None THEN FALLBACK_THRESHOLD
  ELSE st.cosine_alignment_threshold

WinConditionNonStrict(st) ==
  /\ st.cosine_alignment # None
  /\ st.cosine_alignment <= SENTINEL_BOUND
  /\ st.cosine_alignment >= Threshold(st)

\* lines 554-555: alignment present, within the sentinel bound, above threshold
WinCondition(st) ==
  /\ st.cosine_alignment # None
  /\ st.cosine_alignment <= SENTINEL_BOUND
  /\ st.cosine_alignment > Threshold(st)

BlankElapsedLate(frame, start) == (frame - start) > WIN_BLANK_DURATION_FRAMES

\* line 596
BlankElapsed(frame, start) == (frame - start) >= WIN_BLANK_DURATION_FRAMES

\* result of one evaluation of the FSM block; config is the queue position
\* of the trial handed to write_reset_config, or None
Outcome(ph, win, bsf, idx, a_reset, a_blank, a_anim, config) ==
  [state |-> ph, inferred_win |-> win, blank_start_frame |-> bsf,
   index |-> idx, auto_reset |-> a_reset, auto_blank |-> a_blank,
   auto_anim |-> a_anim, config |-> config]

playing_step_forgets_win(check, st, win, bsf, idx) ==
  IF check
  THEN IF WinCondition(st)
       THEN Outcome("won", win, bsf, idx, FALSE, FALSE, TRUE, None)
       ELSE Outcome("playing", win, bsf, idx, FALSE, FALSE, TRUE, None)
  ELSE Outcome("playing", win, bsf, idx, FALSE, FALSE, FALSE, None)

\* lines 544-560
playing_step(check, st, win, bsf, idx) ==
  IF check
  THEN IF WinCondition(st)
       THEN Outcome("won", TRUE, bsf, idx, FALSE, FALSE, TRUE, None)
       ELSE Outcome("playing", win, bsf, idx, FALSE, FALSE, TRUE, None)
  ELSE Outcome("playing", win, bsf, idx, FALSE, FALSE, FALSE, None)

won_step_skips_animating(st, win, bsf, idx) ==
  IF st.is_animating
  THEN Outcome("blank", win, st.frame_number, idx, FALSE, FALSE, FALSE, None)
  ELSE Outcome("won", win, bsf, idx, FALSE, FALSE, TRUE, None)

won_step_no_nudge(st, win, bsf, idx) ==
  IF st.is_animating
  THEN Outcome("animating", win, bsf, idx, FALSE, FALSE, FALSE, None)
  ELSE Outcome("won", win, bsf, idx, FALSE, FALSE, FALSE, None)

\* lines 562-566
won_step(st, win, bsf, idx) ==
  IF st.is_animating
  THEN Outcome("animating", win, bsf, idx, FALSE, FALSE, FALSE, None)
  ELSE Outcome("won", win, bsf, idx, FALSE, FALSE, TRUE, None)

animating_step_no_advance(st, win, bsf, idx, L) ==
  IF ~st.is_animating
  THEN IF win
       THEN Outcome("blank", win, st.frame_number, idx, TRUE, TRUE, FALSE,
                    Position(idx, L))
       ELSE Outcome("playing", win, bsf, idx, FALSE, FALSE, FALSE, None)
  ELSE Outcome("animating", win, bsf, idx, FALSE, FALSE, FALSE, None)

\* lines 568-593
animating_step(st, win, bsf, idx, L) ==
  IF ~st.is_animating
  THEN IF win
       THEN Outcome("blank", win, st.frame_number, idx + 1, TRUE, TRUE, FALSE,
                    Position(idx + 1, L))
       ELSE Outcome("playing", win, bsf, idx, FALSE, FALSE, FALSE, None)
  ELSE Outcome("animating", win, bsf, idx, FALSE, FALSE, FALSE, None)

blank_step_silent(st, win, bsf, idx) ==
  IF BlankElapsed(st.frame_number, bsf)
  THEN Outcome("playing", win, bsf, idx, FALSE, FALSE, FALSE, None)
  ELSE Outcome("blank", win, bsf, idx, FALSE, FALSE, FALSE, None)

blank_step_advances(st, win, bsf, idx) ==
  IF BlankElapsed(st.frame_number, bsf)
  THEN Outcome("playing", win, bsf, idx + 1, FALSE, TRUE, FALSE, None)
  ELSE Outcome("blank", win, bsf, idx, FALSE, FALSE, FALSE, None)

\* lines 595-601
blank_step(st, win, bsf, idx) ==
  IF BlankElapsed(st.frame_number, bsf)
  THEN Outcome("playing", win, bsf, idx, FALSE, TRUE, FALSE, None)
  ELSE Outcome("blank", win, bsf, idx, FALSE, FALSE, FALSE, None)

\* lines 544-601: the block under NORMAL FSM LOGIC
fsm(ph, check, st, win, bsf, idx, L) ==
  CASE ph = "playing"   -> playing_step(check, st, win, bsf, idx)
    [] ph = "won"       -> won_step(st, win, bsf, idx)
    [] ph = "animating" -> animating_step(st, win, bsf, idx, L)
    [] ph = "blank"     -> blank_step(st, win, bsf, idx)

\* ---------------------------------------------------------- trigger bus
\* lines 604-608: Apply triggers
apply_triggers(t, a_reset, a_blank, a_stop, a_resume, a_anim) ==
  [t EXCEPT !["reset"] = @ \/ a_reset,
            !["blank"] = @ \/ a_blank,
            !["pause"] = @ \/ a_stop,
            !["resume"] = @ \/ a_resume,
            !["animation_door"] = @ \/ a_anim]

compose_no_door(t, f_stop, f_resume) ==
  write_commands(t["check"], t["reset"], t["blank"],
                 t["pause"] \/ f_stop, t["resume"] \/ f_resume, FALSE)

\* lines 615-624: the frame process_inputs_and_update_ui writes
compose(t, f_stop, f_resume) ==
  write_commands(t["check"], t["reset"], t["blank"],
                 t["pause"] \/ f_stop, t["resume"] \/ f_resume,
                 t["animation_door"])

clear_triggers_none(t) == t

\* line 627: for k in self.triggers: self.triggers[k] = False
clear_triggers(t) == [k \in TriggerKeys |-> FALSE]

\* the pulses the state machine / supervisor forced in a tick, as sources
Forced(a_reset, a_blank, a_stop, a_resume, a_anim) ==
     (IF a_reset  THEN {<<"reset", "fsm">>} ELSE {})
  \cup (IF a_blank  THEN {<<"blank", "fsm">>} ELSE {})
  \cup (IF a_stop   THEN {<<"pause", "fsm">>} ELSE {})
  \cup (IF a_resume THEN {<<"resume", "fsm">>} ELSE {})
  \cup (IF a_anim   THEN {<<"animation_door", "fsm">>} ELSE {})

\* ----------------------------------------------------------- supervisor
supervisor_pause_toggles(pause, resume, paused) ==
  LET auto_stop   == pause /\ ~paused
      auto_resume == ~auto_stop /\ resume /\ paused
  IN  [auto_stop |-> auto_stop, auto_resume |-> auto_resume,
       is_paused |-> IF auto_stop THEN TRUE
                     ELSE IF auto_resume \/ pause THEN FALSE ELSE paused]

\* lines 520-528: the pause / resume edges against self.is_paused
supervisor(pause, resume, paused) ==
  LET auto_stop   == pause /\ ~paused
      auto_resume == ~auto_stop /\ resume /\ paused
  IN  [auto_stop |-> auto_stop, auto_resume |-> auto_resume,
       is_paused |-> IF auto_stop THEN TRUE
                     ELSE IF auto_resume THEN FALSE ELSE paused]

loop_calls_quiet_when_paused(idle, config) ==
  IF idle THEN <<Call("read", NoTrial)>>
  ELSE <<Call("read", NoTrial)>>
       \o (IF config = NoTrial THEN <<>> ELSE <<Call("config", config)>>)
       \o <<Call("commands", NoTrial)>>

\* the adapter calls of one tick: on the early-return path lines 506 and
\* 537 (-> 615), otherwise lines 506, 577 (on a trial advance) and 610 (-> 615)
loop_calls(idle, config) ==
  IF idle THEN <<Call("read", NoTrial), Call("commands", NoTrial)>>
  ELSE <<Call("read", NoTrial)>>
       \o (IF config = NoTrial THEN <<>> ELSE <<Call("config", config)>>)
       \o <<Call("commands", NoTrial)>>

\* --------------------------------------------------------- bookkeeping
\* dropped: the pulse flags of the previous tick's frame that this tick's
\* frame no longer carries
Last(op, key, evaluated, from, forced, dropped) ==
  [op |-> op, key |-> key, evaluated |-> evaluated, from |-> from,
   forced |-> forced, dropped |-> dropped]

Pulses == {"check", "reset", "blank_screen", "stop_rendering",
           "resume_rendering", "animation_door"}

\* the trigger a frame field is composed from (lines 618-623)
TriggerOf(p) ==
  CASE p = "blank_screen"     -> "blank"
    [] p = "stop_rendering"   -> "pause"
    [] p = "resume_rendering" -> "resume"
    [] OTHER                  -> p

\* ------------------------------------------------------------------ Init
\* lines 219-264: the state __init__ leaves, with one loop timer scheduled,
\* after a trial file of 1..MaxTrials well-formed records
InitWith(fl) ==
  /\ state = "playing"
  /\ triggers = NoTriggers
  /\ \E L \in 1..MaxTrials :
       trials = load_trials(TrialFile("readable", [i \in 1..L |-> "record"]))
  /\ trial_file = NoFile
  /\ attempts = <<>>
  /\ engine_trial = NoTrial
  /\ commands_done = FALSE
  /\ blank_sent = 0
  /\ current_trial_index = 0
  /\ blank_start_frame = 0
  /\ inferred_win = FALSE
  /\ paused_state = NoSnapshot
  /\ is_paused = FALSE
  /\ inner \in BOOLEAN
  /\ flaky = fl
  /\ unblank_timers = <<>>
  /\ loop_pending = 1
  /\ game = NoTelemetry
  /\ tx = NoFrame
  /\ armed = {}
  /\ calls = <<>>
  /\ last = Last("init", "", FALSE, "playing", {}, {})
  /\ nevents = 0

Init == InitWith(FALSE)

\* ------------------------------------------------------------------ loop
\* lines 504-611 with process_inputs_and_update_ui (613-632) inlined at both
\* of its call sites.  update_data_table (line 457, reached from line 630
\* before either self.after) raises ZeroDivisionError on an empty queue, so
\* such a tick sends its frame and clears the triggers but schedules no
\* further tick.
loop ==
  /\ loop_pending > 0
  \* rc, cc, mc: whether the read, the config write and the commands write
  \* go through; a failed connect and a raising call leave the same trace,
  \* so each call draws one outcome for both
  /\ \E rc \in Outcomes, cc \in Outcomes, mc \in Outcomes, eng \in Telemetry(state) :
       LET rd          == shm_call(inner, rc, rc)
           st          == read_game_state(rd.done, eng)
           sup         == supervisor(triggers["pause"], triggers["resume"], is_paused)
           auto_stop   == sup.auto_stop
           auto_resume == sup.auto_resume
           \* the early return of lines 535-539
           idle        == sup.is_paused /\ ~(auto_stop \/ auto_resume)
       \* f: what the block under NORMAL FSM LOGIC does in this tick
       IN \E f \in {IF idle
                          THEN Outcome(state, inferred_win, blank_start_frame,
                                       current_trial_index, FALSE, FALSE, FALSE, None)
                          ELSE fsm(state, triggers["check"], st, inferred_win,
                                   blank_start_frame, current_trial_index, Len(trials))} :
       LET config      == IF f.config = None THEN NoTrial ELSE trials[f.config + 1]
           cfg         == shm_call(rd.inner, cc, cc)
           cmd         == shm_call(IF config = NoTrial THEN rd.inner ELSE cfg.inner,
                                   mc, mc)
           trg         == IF idle THEN triggers
                          ELSE apply_triggers(triggers, f.auto_reset, f.auto_blank,
                                              auto_stop, auto_resume, f.auto_anim)
           frame       == IF idle THEN compose(trg, auto_stop, auto_resume)
                          ELSE compose(trg, FALSE, FALSE)
           forced      == IF idle THEN {}
                          ELSE Forced(f.auto_reset, f.auto_blank, auto_stop,
                                      auto_resume, f.auto_anim)
       IN  /\ (~rd.done => eng = DEFAULT_STATE)
           /\ (config = NoTrial => cc)
           /\ f.index <= MaxIndex
           /\ is_paused' = sup.is_paused
           /\ state' = f.state
           /\ inferred_win' = f.inferred_win
           /\ blank_start_frame' = f.blank_start_frame
           /\ current_trial_index' = f.index
           /\ triggers' = clear_triggers(trg)
           /\ game' = IF idle THEN NoTelemetry ELSE st
           /\ tx' = frame
           /\ armed' = {}
           /\ calls' = loop_calls(idle, config)
           /\ attempts' = <<rd>> \o (IF config = NoTrial THEN <<>> ELSE <<cfg>>)
                          \o <<cmd>>
           /\ engine_trial' = IF config = NoTrial THEN engine_trial ELSE config
           \* the commands write is the tick's last adapter call
           /\ inner' = cmd.inner
           /\ commands_done' = (commands_done \/ cmd.done)
           /\ blank_sent' = IF blank_sent = None THEN None
                            ELSE IF frame.blank_screen THEN 1 - blank_sent
                            ELSE blank_sent
           /\ last' = Last("loop", "", ~idle, state, forced,
                           {p \in Pulses : tx[p] /\ ~frame[p]})
  /\ loop_pending' = (loop_pending - 1) + (IF Len(trials) = 0 THEN 0 ELSE 1)
  /\ unblank_timers' = [i \in DOMAIN unblank_timers |-> TRUE]
  /\ nevents' = 0
  /\ UNCHANGED <<trials, paused_state, flaky, trial_file>>

\* ------------------------------------------------------------ key events
\* what every key event leaves alone; the bindings exist once the
\* constructor has run (lines 260-261)
KeyFrame(op, key) ==
  /\ trial_file = NoFile
  /\ last' = Last(op, key, FALSE, state, {}, {})
  /\ game' = NoTelemetry
  /\ UNCHANGED <<state, trials, blank_start_frame, inferred_win, loop_pending,
                 tx, flaky, trial_file>>

\* lines 647-677, entered from line 760 after triggers["reset"] = True; on
\* an empty queue line 649 raises before anything else is done
trigger_reset_config ==
  \E mc \in Outcomes, cc \in Outcomes :
    LET cmd == shm_call(inner, mc, mc)
        cfg == shm_call(cmd.inner, cc, cc)
    IN  /\ triggers' = [triggers EXCEPT !["reset"] = TRUE]
        /\ armed' = armed \cup {<<"reset", "key">>}
        /\ UNCHANGED <<paused_state, is_paused, unblank_timers, blank_sent>>
        /\ IF Len(trials) = 0
           THEN /\ (mc /\ cc)
                /\ calls' = <<>>
                /\ attempts' = <<>>
                /\ UNCHANGED <<current_trial_index, inner, engine_trial,
                               commands_done>>
           ELSE /\ current_trial_index < MaxIndex
                /\ current_trial_index' = current_trial_index + 1
                /\ calls' = <<Call("commands", NoTrial),
                              Call("config", Trial(trials, current_trial_index))>>
                /\ attempts' = <<cmd, cfg>>
                /\ engine_trial' = Trial(trials, current_trial_index)
                /\ inner' = cfg.inner
                /\ commands_done' = (commands_done \/ cmd.done)

\* lines 679-728; on an empty queue line 693 raises after lines 681 and 685
\* and the except clause swallows it
trigger_retry ==
  \E cc \in Outcomes :
    LET cfg == shm_call(inner, cc, cc)
    IN  /\ is_paused' = TRUE
        /\ UNCHANGED <<current_trial_index, engine_trial, commands_done>>
        /\ blank_sent' = None
        /\ IF Len(trials) = 0
           THEN /\ cc
                /\ triggers' = [triggers EXCEPT !["retry"] = TRUE]
                /\ calls' = <<>>
                /\ attempts' = <<>>
                /\ UNCHANGED <<paused_state, inner, armed, unblank_timers>>
           ELSE LET idx   == Position(current_trial_index - 1, Len(trials))
                    trial == trials[idx + 1]
                IN  /\ Len(unblank_timers) < MaxPending
                    /\ paused_state' = [trial_idx |-> idx, yaw |-> trial.start_orient,
                                        config |-> trial]
                    /\ calls' = <<Call("config", trial)>>
                    /\ attempts' = <<cfg>>
                    /\ inner' = cfg.inner
                    /\ triggers' = [triggers EXCEPT !["retry"] = TRUE,
                                                    !["reset"] = TRUE,
                                                    !["blank"] = TRUE]
                    /\ armed' = armed \cup {<<"reset", "retry">>, <<"blank", "retry">>}
                    /\ unblank_timers' = Append(unblank_timers, FALSE)

\* lines 749-766 (the directional keys and q are not modelled)
on_key_press ==
  \E key \in Keys :
    /\ nevents < MaxEvents
    /\ nevents' = nevents + 1
    /\ KeyFrame("on_key_press", key)
    /\ CASE key = "space" ->
              /\ triggers' = [triggers EXCEPT !["check"] = TRUE,
                                              !["animation_door"] = TRUE]
              /\ armed' = armed \cup {<<"check", "key">>, <<"animation_door", "key">>}
              /\ calls' = <<>>
              /\ attempts' = <<>>
              /\ UNCHANGED <<current_trial_index, paused_state, is_paused, inner,
                             unblank_timers, engine_trial, commands_done,
                             blank_sent>>
         [] key = "r" -> trigger_reset_config
         [] key = "c" -> trigger_retry
         [] key \in {"b", "p", "o"} ->
              LET t == CASE key = "b" -> "blank" [] key = "p" -> "pause"
                         [] key = "o" -> "resume"
              IN  /\ triggers' = [triggers EXCEPT ![t] = TRUE]
                  /\ armed' = armed \cup {<<t, "key">>}
                  /\ calls' = <<>>
                  /\ attempts' = <<>>
                  /\ blank_sent' = IF key = "b" THEN None ELSE blank_sent
                  /\ UNCHANGED <<current_trial_index, paused_state, is_paused,
                                 inner, unblank_timers, engine_trial,
                                 commands_done>>

\* lines 634-645; a release needs no earlier press in this window (focus
\* changes, auto-repeat), and only ever clears a flag
on_key_release ==
  \E key \in Keys :
    LET t == CASE key = "space" -> "check" [] key = "r" -> "reset"
               [] key = "c" -> "retry" [] key = "b" -> "blank"
               [] key = "p" -> "pause" [] key = "o" -> "resume"
    IN  /\ KeyFrame("on_key_release", "")
        /\ triggers' = [triggers EXCEPT ![t] = FALSE]
        /\ calls' = <<>>
        /\ attempts' = <<>>
        /\ UNCHANGED <<current_trial_index, paused_state, is_paused, inner,
                       unblank_timers, armed, nevents, engine_trial,
                       commands_done, blank_sent>>

\* lines 730-747: the deferred action scheduled by trigger_retry.  Tk runs
\* timers in order of due time, and a loop timer is never due more than
\* 16 ms ahead, so a tick has run before a 200 ms timer fires.
unblank_callback ==
  /\ unblank_timers # <<>>
  /\ Head(unblank_timers)
  /\ unblank_timers' = Tail(unblank_timers)
  /\ triggers' = [triggers EXCEPT !["blank"] = TRUE]
  /\ armed' = armed \cup {<<"blank", "unblank">>}
  /\ calls' = <<>>
  /\ attempts' = <<>>
  /\ last' = Last("unblank_callback", "", FALSE, state, {}, {})
  /\ game' = NoTelemetry
  /\ UNCHANGED <<state, trials, current_trial_index, blank_start_frame,
                 inferred_win, paused_state, is_paused, inner, flaky,
                 loop_pending, tx, nevents, trial_file, engine_trial,
                 commands_done, blank_sent>>

Next == loop \/ on_key_press \/ on_key_release \/ unblank_callback

Spec == Init /\ [][Next]_vars

\* the same controller on a channel whose connects and calls can fail, with
\* an operator who uses only the check, reset and Retry keys
InitFlaky == InitWith(TRUE)

flaky_key_press == on_key_press /\ last'.key \in {"space", "r", "c"}

NextFlaky == loop \/ flaky_key_press \/ unblank_callback

SpecFlaky == InitFlaky /\ [][NextFlaky]_vars

\* ------------------------------------------------------------- the show
\* The controller of lines 219-264 on a reliable channel with an operator
\* who never pauses: no pause key and no Retry (line 685 sets is_paused), so
\* no deferred unblank either.  The engine's frame counter runs on: the
\* blank period starts at a frame that leaves room, below MaxFrame, for the
\* frame at which it has elapsed; the reset key leaves room, below MaxIndex,
\* for the advance of the cycle.
show_loop ==
  /\ loop
  /\ state' = "blank" =>
       \E fr \in 0..MaxFrame : BlankElapsed(fr, blank_start_frame')

show_key_press ==
  /\ on_key_press
  /\ last'.key \in {"space", "r", "b", "o"}
  /\ last'.key = "r" => current_trial_index' < MaxIndex

\* a tick on which the engine's telemetry moves the show on: is_animating
\* true in Won, false in Animating, the blank period elapsed in Blank
show_step ==
  /\ state \in {"won", "animating", "blank"}
  /\ show_loop
  /\ state' # state

NextShow == show_loop \/ show_key_press \/ on_key_release

SpecShow == Init /\ [][NextShow]_vars /\ WF_vars(show_step)

\* ----------------------------------------------------------- constructor
\* before MonkeyGameController() has run: any trial file, no timer, no
\* connection
InitLoad ==
  /\ state = "playing"
  /\ triggers = NoTriggers
  /\ trials = <<>>
  /\ trial_file \in TrialFiles
  /\ attempts = <<>>
  /\ engine_trial = NoTrial
  /\ commands_done = FALSE
  /\ blank_sent = 0
  /\ current_trial_index = 0
  /\ blank_start_frame = 0
  /\ inferred_win = FALSE
  /\ paused_state = NoSnapshot
  /\ is_paused = FALSE
  /\ inner = FALSE
  /\ flaky = FALSE
  /\ unblank_timers = <<>>
  /\ loop_pending = 0
  /\ game = NoTelemetry
  /\ tx = NoFrame
  /\ armed = {}
  /\ calls = <<>>
  /\ last = Last("start", "", FALSE, "playing", {}, {})
  /\ nevents = 0

\* lines 211-264: __init__ connects the adapter (line 232 -> 124-126),
\* loads the trials (line 244) and schedules the first tick (line 264)
MonkeyGameController ==
  /\ trial_file # NoFile
  /\ trials' = load_trials(trial_file)
  /\ trial_file' = NoFile
  /\ inner' \in BOOLEAN
  /\ loop_pending' = 1
  /\ last' = Last("init", "", FALSE, "playing", {}, {})
  /\ UNCHANGED <<state, triggers, current_trial_index, blank_start_frame,
                 inferred_win, paused_state, is_paused, flaky, unblank_timers,
                 game, tx, armed, calls, nevents, attempts, engine_trial,
                 commands_done, blank_sent>>

NextLoad == MonkeyGameController \/ Next

SpecLoad == InitLoad /\ [][NextLoad]_vars

\* ------------------------------------------ the adapter under any caller
\* what any caller may hand to or get from the adapter
AnyTelemetry == UNION {Telemetry(ph) : ph \in States}

AnyFrame ==
  [check : BOOLEAN, reset : BOOLEAN, blank_screen : BOOLEAN,
   stop_rendering : BOOLEAN, resume_rendering : BOOLEAN, animation_door : BOOLEAN]

\* what an adapter call leaves alone
AdapterFrame(op) ==
  /\ last' = Last(op, "", FALSE, state, {}, {})
  /\ UNCHANGED <<state, triggers, trials, current_trial_index, blank_start_frame,
                 inferred_win, paused_state, is_paused, flaky, unblank_timers,
                 loop_pending, armed, nevents, trial_file, engine_trial,
                 blank_sent>>

\* lines 136-150
SharedMemory_read_game_state ==
  \E conn_ok \in Outcomes, op_ok \in Outcomes, eng \in AnyTelemetry :
    LET r == shm_call(inner, conn_ok, op_ok)
    IN  /\ AdapterFrame("read_game_state")
        /\ inner' = r.inner
        /\ game' = read_game_state(r.done, eng)
        /\ calls' = <<Call("read", NoTrial)>>
        /\ attempts' = <<r>>
        /\ UNCHANGED <<tx, commands_done>>

\* lines 152-172
SharedMemory_write_commands ==
  \E conn_ok \in Outcomes, op_ok \in Outcomes, frame \in AnyFrame :
    LET r == shm_call(inner, conn_ok, op_ok)
    IN  /\ AdapterFrame("write_commands")
        /\ inner' = r.inner
        /\ tx' = frame
        /\ calls' = <<Call("commands", NoTrial)>>
        /\ attempts' = <<r>>
        /\ commands_done' = (commands_done \/ r.done)
        /\ game' = NoTelemetry

\* lines 174-207
SharedMemory_write_reset_config ==
  \E conn_ok \in Outcomes, op_ok \in Outcomes, i \in DOMAIN trials :
    LET r == shm_call(inner, conn_ok, op_ok)
    IN  /\ AdapterFrame("write_reset_config")
        /\ inner' = r.inner
        /\ calls' = <<Call("config", trials[i])>>
        /\ attempts' = <<r>>
        /\ game' = NoTelemetry
        /\ UNCHANGED <<tx, commands_done>>

InitAdapter == InitWith(TRUE)

NextAdapter ==
  \/ SharedMemory_read_game_state
  \/ SharedMemory_write_commands
  \/ SharedMemory_write_reset_config

SpecAdapter == InitAdapter /\ [][NextAdapter]_vars

\* ===================================================================
\* Properties
\* ===================================================================
Tick      == last'.op = "loop"
Evaluated == last'.op = "loop" /\ last'.evaluated
RetryStep == last'.op = "on_key_press" /\ last'.key = "c"
QueueLen  == Len(trials)

\* the adapter calls of the step just taken include a config write of trial t
ConfigWritten(cs, t) == \E i \in DOMAIN cs : cs[i] = Call("config", t)

\* flag p of the frame was set again since the previous tick's send: by a key
\* event, Retry or the deferred callback (armed), or by this tick's logic
Rearmed(p) ==
  \/ \E w \in armed : w[1] = TriggerOf(p)
  \/ <<TriggerOf(p), "fsm">> \in last'.forced

\* C1 -- pulse non-persistence: a pulse flag that is true in the frame sent by
\* one tick and true again in the frame sent by the next tick was set again
\* between the two sends (key event, Retry, deferred callback) or forced by
\* the second tick; otherwise it is false in the second frame.
C1_PulseNonPersistence ==
  [][Tick => \A p \in Pulses : (tx[p] /\ tx'[p]) => Rearmed(p)]_vars

\* a tick has sent a frame in which a pulse of the previous frame is gone
C1_Witness == last.op = "loop" /\ last.dropped # {}

\* C2 -- win inference: a tick that evaluates the state machine in Playing
\* moves to Won iff check was requested, the alignment is present and <= 1.5
\* and it is strictly above the echoed threshold (0.9 when absent); a move to
\* Won sets win inferred.
C2_WinInference ==
  [][(Evaluated /\ state = "playing") =>
       /\ (state' = "won") <=>
            /\ triggers["check"]
            /\ game'.cosine_alignment # None
            /\ game'.cosine_alignment <= 150
            /\ game'.cosine_alignment >
                 (IF game'.cosine_alignment_threshold = None THEN 90
                  ELSE game'.cosine_alignment_threshold)
       /\ state' \in {"playing", "won"}
       /\ (state' = "won" => inferred_win')]_vars

\* a check with the alignment above the threshold has moved Playing to Won
C2_Witness ==
  /\ last.op = "loop" /\ last.evaluated /\ last.from = "playing"
  /\ tx.check /\ state = "won" /\ inferred_win
  /\ game.cosine_alignment = 95 /\ game.cosine_alignment_threshold = None

\* C3 -- Animating -> Blank: an evaluated tick in Animating with is_animating
\* false and win inferred true moves to Blank, records the telemetry frame as
\* blank_start_frame, advances the trial index by one, issues a config write
\* of the trial at the new index, and sends reset and blank_screen.
C3_AnimatingToBlank ==
  [][(Evaluated /\ state = "animating" /\ ~game'.is_animating /\ inferred_win) =>
       /\ state' = "blank"
       /\ blank_start_frame' = game'.frame_number
       /\ current_trial_index' = current_trial_index + 1
       /\ ConfigWritten(calls', trials[(current_trial_index' % QueueLen) + 1])
       /\ tx'.reset /\ tx'.blank_screen]_vars

\* the Animating -> Blank tick has run, with a frame number that shows
C3_Witness ==
  /\ last.op = "loop" /\ last.evaluated /\ last.from = "animating"
  /\ state = "blank" /\ ~game.is_animating /\ game.frame_number = 2
  /\ blank_start_frame = 2 /\ current_trial_index = 2 /\ QueueLen = 2
  /\ ConfigWritten(calls, TrialAt(0))

\* C4 -- blank timing: an evaluated tick in Blank moves to Playing iff
\* frame_number - blank_start_frame >= WIN_BLANK_DURATION_FRAMES, and stays
\* in Blank otherwise.
C4_BlankTiming ==
  [][(Evaluated /\ state = "blank") =>
       /\ (state' = "playing") <=>
            (game'.frame_number - blank_start_frame >= WIN_BLANK_DURATION_FRAMES)
       /\ (state' = "blank") <=>
            (game'.frame_number - blank_start_frame <= WIN_BLANK_DURATION_FRAMES - 1)]_vars

\* an evaluated tick one frame short of the duration has stayed in Blank
C4_Witness ==
  /\ last.op = "loop" /\ last.evaluated /\ last.from = "blank" /\ state = "blank"
  /\ game.frame_number - blank_start_frame = WIN_BLANK_DURATION_FRAMES - 1

\* C5 -- Blank -> Playing side effects: the tick that moves Blank to Playing
\* sends reset = true and leaves the trial index unchanged.
C5_BlankToPlayingReset ==
  [][(Evaluated /\ state = "blank" /\ state' = "playing") =>
       /\ tx'.reset
       /\ current_trial_index' = current_trial_index]_vars

\* C6 -- paused frame condition: every step that leaves the supervisor paused
\* (the pause tick, a Retry, and every tick, key event and deferred action
\* until the resume tick) changes neither the phase nor the trial index.
C6_PausedFreezes ==
  [][is_paused' =>
       /\ state' = state
       /\ current_trial_index' = current_trial_index]_vars

\* C7 -- Retry effects: Retry at index i on a queue of length L sets paused,
\* snapshots (i-1) mod L with that trial's start_orient and config, issues a
\* config write of that trial, and the next tick's frame has reset and
\* blank_screen true.
C7_RetryEffects ==
  [][/\ RetryStep =>
          LET t == trials[((current_trial_index - 1) % QueueLen) + 1]
          IN  /\ is_paused'
              /\ paused_state' =
                   [trial_idx |-> (current_trial_index - 1) % QueueLen,
                    yaw |-> t.start_orient, config |-> t]
              /\ ConfigWritten(calls', t)
     /\ (Tick /\ <<"blank", "retry">> \in armed) =>
          (tx'.reset /\ tx'.blank_screen)]_vars

\* a Retry's deferred pulse is outstanding: its timer is set, or its callback
\* has run and no tick has sent a frame since
RetryInProgress ==
  unblank_timers # <<>> \/ <<"blank", "unblank">> \in armed

\* C8 -- Retry double pulse: the tick after the deferred callback sends
\* blank_screen = true, that pulse comes from the callback alone (no key,
\* Retry or state-machine blank merged into it), and the phase does not change
\* between the Retry and that frame.
C8_RetryDoublePulse ==
  [][/\ (Tick /\ <<"blank", "unblank">> \in armed) =>
          /\ tx'.blank_screen
          /\ {w \in armed : w[1] = "blank"} = {<<"blank", "unblank">>}
          /\ <<"blank", "fsm">> \notin last'.forced
     /\ RetryInProgress => state' = state]_vars

\* C9 -- trial queue arithmetic: every advance raises the index by one and
\* returns (writes) the trial at the new index mod L, and active() is the
\* trial at (index - 1) mod L.
C9_QueueArithmetic ==
  [][/\ (current_trial_index' # current_trial_index) =>
          /\ current_trial_index' = current_trial_index + 1
          /\ ConfigWritten(calls', trials[(current_trial_index' % QueueLen) + 1])
     /\ RetryStep =>
          paused_state'.config = trials[((current_trial_index - 1) % QueueLen) + 1]]_vars

\* C10 -- protocol guard: every config write is immediately preceded by a
\* commands write of the same action.
C10_CommandsBeforeConfig ==
  \A i \in DOMAIN calls :
    calls[i].op = "config" => (i > 1 /\ calls[i - 1].op = "commands")

\* C11 -- pause / resume edge detection: a tick's frame has stop_rendering
\* true only when that tick takes paused from false to true, and
\* resume_rendering true only when it takes paused from true to false.
C11_PauseResumeEdges ==
  [][Tick =>
       /\ tx'.stop_rendering => (~is_paused /\ is_paused')
       /\ tx'.resume_rendering => (is_paused /\ ~is_paused')]_vars

\* C12 -- resume timing: the tick that detects the resume edge (resume set
\* while paused) clears paused and, the state machine not being evaluated in
\* it, changes neither the phase nor the trial index.
C12_ResumeTickIdle ==
  [][(Tick /\ is_paused /\ triggers["resume"]) =>
       /\ ~is_paused'
       /\ state' = state
       /\ current_trial_index' = current_trial_index]_vars

\* C13 -- paused is sticky: paused goes from true to false only in a tick in
\* which the resume trigger is set; no other tick, key event, Retry or
\* deferred unblank action clears it.
C13_PausedUntilResume ==
  [][(is_paused /\ ~is_paused') => (Tick /\ triggers["resume"])]_vars

\* after a Retry the deferred unblank action has run, a tick has sent its
\* pulse, and the supervisor is still paused
C13_Witness ==
  /\ paused_state.trial_idx # None /\ unblank_timers = <<>>
  /\ last.op = "loop" /\ ~last.evaluated /\ tx.blank_screen
  /\ is_paused

\* C14 -- Won handling: an evaluated tick in Won moves to Animating when
\* telemetry is_animating is true; otherwise it stays in Won and its frame
\* has animation_door true.
C14_WonHandling ==
  [][(Evaluated /\ state = "won") =>
       IF game'.is_animating THEN state' = "animating"
       ELSE state' = "won" /\ tx'.animation_door]_vars

\* an evaluated tick in Won has seen is_animating false and sent the nudge
C14_Witness ==
  /\ last.op = "loop" /\ last.evaluated /\ last.from = "won"
  /\ ~game.is_animating /\ state = "won" /\ tx.animation_door

\* C15 -- an evaluated tick in Playing with check requested sends
\* animation_door true, whether or not the win condition holds.
C15_CheckOpensDoor ==
  [][(Evaluated /\ state = "playing" /\ triggers["check"]) =>
       tx'.animation_door]_vars

\* a check that failed (alignment equal to the fallback threshold) has sent
\* the door pulse all the same
C15_Witness ==
  /\ last.op = "loop" /\ last.evaluated /\ last.from = "playing"
  /\ tx.check /\ game.cosine_alignment = 90 /\ state = "playing"
  /\ tx.animation_door

\* the trial sources the fallback is claimed for: missing or unreadable, no
\* record at all, or a malformed record anywhere
FallbackSource(file) ==
  \/ file.status = "missing"
  \/ \A i \in DOMAIN file.lines : file.lines[i] # "record"
  \/ \E i \in DOMAIN file.lines : file.lines[i] = "malformed"

\* C16 -- trial loading fallback: the constructor's load leaves exactly the
\* singleton default queue for every fallback source, and a queue of length
\* >= 1 for every source.
C16_LoadFallback ==
  [][(trial_file # NoFile /\ trial_file' = NoFile) =>
       /\ FallbackSource(trial_file) => trials' = <<DEFAULT_CONFIG>>
       /\ Len(trials') >= 1]_vars

\* C17 -- adapter failure semantics: a call that finds the connection broken
\* tries to reconnect first; a call that fails (no connection, or the
\* wrapped call raises) leaves the connection marked broken; a failed read
\* returns the default telemetry to its caller.
C17_AdapterFailure ==
  [][attempts' # <<>> =>
       /\ Len(attempts') = Len(calls')
       /\ ~inner => attempts'[1].connect
       /\ \A i \in DOMAIN attempts' :
            /\ (i > 1 /\ ~attempts'[i - 1].done) => attempts'[i].connect
            /\ ~attempts'[i].done => ~attempts'[i].inner
       /\ inner' = attempts'[Len(attempts')].inner
       /\ (calls'[1].op = "read" /\ ~attempts'[1].done /\ game' # NoTelemetry) =>
            /\ game' = DEFAULT_STATE
            /\ game'.frame_number = 0 /\ ~game'.is_animating
            /\ game'.cosine_alignment = None]_vars

\* a read on a broken connection has tried to reconnect, failed, returned the
\* default telemetry and left the connection broken
C17_Witness ==
  /\ last.op = "read_game_state"
  /\ attempts[1].connect /\ ~attempts[1].done
  /\ game = DEFAULT_STATE /\ ~inner

\* C18 -- every tick hands exactly one command frame to the adapter, as its
\* last adapter call, on the paused path as on every other.
C18_OneFramePerTick ==
  [][Tick =>
       /\ Cardinality({i \in DOMAIN calls' : calls'[i].op = "commands"}) = 1
       /\ calls'[Len(calls')].op = "commands"]_vars

\* a tick on the paused path (no edge, state machine skipped) has sent its frame
C18_Witness ==
  /\ last.op = "loop" /\ ~last.evaluated /\ is_paused
  /\ Cardinality({i \in DOMAIN calls : calls[i].op = "commands"}) = 1

\* C19 -- Retry replays the running trial: after at least one trial advance,
\* the trial whose config Retry writes is the trial carried by the most
\* recent advance-triggered config write.
C19_RetryReplaysRunning ==
  [][(RetryStep /\ engine_trial # NoTrial) =>
       ConfigWritten(calls', engine_trial)]_vars

\* the queue position (1-based) of a trial record
PositionOf(t) == CHOOSE i \in DOMAIN trials : trials[i] = t

\* C20 -- cyclic consumption: each advance-triggered config write carries the
\* successor (mod L) of the trial carried by the previous one.
C20_CyclicConsumption ==
  [][(current_trial_index' # current_trial_index /\ engine_trial # NoTrial) =>
       engine_trial' = trials[(PositionOf(engine_trial) % QueueLen) + 1]]_vars

\* C21 -- pause tick: the tick that detects the pause edge (pause set while
\* not paused) does not evaluate the state machine: it changes neither the
\* phase, win inferred, blank_start_frame nor the trial index, and issues no
\* config write.
C21_PauseTickIdle ==
  [][(Tick /\ triggers["pause"] /\ ~is_paused) =>
       /\ state' = state
       /\ inferred_win' = inferred_win
       /\ blank_start_frame' = blank_start_frame
       /\ current_trial_index' = current_trial_index
       /\ \A i \in DOMAIN calls' : calls'[i].op # "config"]_vars

\* C22 -- failed check: an evaluated tick in Playing with check requested and
\* the win condition not met (alignment absent, above 1.5, or not strictly
\* above the threshold) stays in Playing with win inferred false after it,
\* also on trials played after an earlier win.
C22_FailedCheck ==
  [][(/\ Evaluated /\ state = "playing" /\ triggers["check"]
      /\ \/ game'.cosine_alignment = None
         \/ game'.cosine_alignment > 150
         \/ game'.cosine_alignment <=
              (IF game'.cosine_alignment_threshold = None THEN 90
               ELSE game'.cosine_alignment_threshold)) =>
       /\ state' = "playing"
       /\ ~inferred_win']_vars

\* C25 -- tick loop continuity: every tick schedules exactly one next tick,
\* so one tick is pending after each tick, on every path.
C25_LoopContinues ==
  [][Tick => loop_pending' = 1]_vars

\* C26 -- in every reachable state phase in {Won, Animating} implies win
\* inferred; hence every exit from Animating goes to Blank with a trial
\* advance, never to Playing.
C26_WinInferredInShow ==
  [][/\ state \in {"won", "animating"} => inferred_win
     /\ state' \in {"won", "animating"} => inferred_win'
     /\ (state = "animating" /\ state' # "animating") =>
          /\ state' = "blank"
          /\ current_trial_index' = current_trial_index + 1]_vars

\* a tick has taken the machine out of Animating, into Blank, on a trial
\* that was won
C26_Witness ==
  /\ last.op = "loop" /\ last.evaluated /\ last.from = "animating"
  /\ state = "blank" /\ inferred_win /\ current_trial_index = 1

\* C28 -- frame condition on the trial index: it changes only by +1, and only
\* in the Animating -> Blank tick or in the reset-key action; key presses for
\* Retry, Pause, Resume and blank, key releases, the deferred unblank action
\* and every other tick leave it unchanged, and Retry also leaves the phase,
\* win inferred and blank_start_frame unchanged.
C28_IndexFrame ==
  [][/\ (current_trial_index' # current_trial_index) =>
          /\ current_trial_index' = current_trial_index + 1
          /\ \/ Tick /\ state = "animating" /\ state' = "blank"
             \/ last'.op = "on_key_press" /\ last'.key = "r"
     /\ RetryStep =>
          /\ state' = state
          /\ inferred_win' = inferred_win
          /\ blank_start_frame' = blank_start_frame
          /\ current_trial_index' = current_trial_index]_vars

\* a Retry has acted in Blank after one trial advance, with a non-zero
\* blank_start_frame to leave alone
C28_Witness ==
  /\ last.op = "on_key_press" /\ last.key = "c"
  /\ state = "blank" /\ inferred_win /\ blank_start_frame = 2
  /\ current_trial_index = 1 /\ is_paused

\* the show moves from Won to Animating, from Animating to Blank and from
\* Blank to Playing, and in no other way
ShowOrder ==
  /\ state = "won" => state' \in {"won", "animating"}
  /\ state = "animating" => state' \in {"animating", "blank"}
  /\ state = "blank" => state' \in {"blank", "playing"}

ResetKeyPressed == last.op = "on_key_press" /\ last.key = "r"

\* C23 -- show liveness, as amended: never paused, on an available channel
\* and with telemetry that moves on, the show leaves Won only for Animating,
\* Animating only for Blank and Blank only for Playing, and from every state
\* with phase Won and trial index k it reaches Playing with trial index
\* k + 1, unless the operator presses the reset key on the way.
C23_ShowLiveness ==
  /\ [][ShowOrder]_vars
  /\ \A k \in 0..(MaxIndex - 1) :
       (state = "won" /\ current_trial_index = k)
         ~> \/ state = "playing" /\ current_trial_index = k + 1
            \/ ResetKeyPressed

\* a show that started in Won at index 0 is back in Playing at index 1, and
\* the reset key was never pressed (each press advances the index)
C23_Witness ==
  /\ last.op = "loop" /\ last.from = "blank" /\ state = "playing"
  /\ current_trial_index = 1 /\ inferred_win

\* C23 -- show liveness, as stated: from every state with phase Won and
\* trial index k the show reaches Playing with trial index k + 1, whatever
\* keys the operator presses.
C23_ShowLivenessAnyKeys ==
  \A k \in 0..(MaxIndex - 1) :
    (state = "won" /\ current_trial_index = k)
      ~> (state = "playing" /\ current_trial_index = k + 1)

\* C24 -- no config before commands: no config write reaches the engine
\* before some commands write has reached it.  Checked on the steps that
\* follow a tick, so that the first tick has had its turn to send a frame.
C24_NoConfigBeforeCommands ==
  [][last.op = "loop" =>
       \A i \in DOMAIN calls' :
         (calls'[i].op = "config" /\ attempts'[i].done) =>
           \/ commands_done
           \/ \E j \in 1..(i - 1) :
                calls'[j].op = "commands" /\ attempts'[j].done]_vars

\* C27 -- blank-toggle parity: in a run without Retry and without the blank
\* key a tick's frame has blank_screen true exactly on the Animating -> Blank
\* tick and on the Blank -> Playing tick, so the number of blank_screen
\* pulses sent so far is even in Playing and odd in Blank.
C27_BlankParity ==
  [][/\ blank_sent # None =>
          /\ state = "playing" => blank_sent = 0
          /\ state = "blank" => blank_sent = 1
     /\ blank_sent' # None =>
          /\ state' = "playing" => blank_sent' = 0
          /\ state' = "blank" => blank_sent' = 1
     /\ (Tick /\ blank_sent' # None) =>
          (tx'.blank_screen <=>
             \/ state = "animating" /\ state' = "blank"
             \/ state = "blank" /\ state' = "playing")]_vars

\* a win cycle has completed without Retry or the blank key: the Blank ->
\* Playing tick has just sent the second pulse
C27_Witness ==
  /\ last.op = "loop" /\ last.from = "blank" /\ state = "playing"
  /\ tx.blank_screen /\ blank_sent = 0 /\ current_trial_index = 1

====
